---------------------------- MODULE Spec2Model ----------------------------
(***************************************************************************)
(* A model of gallery/scrape.py: make_url, load_firefox_cookies,           *)
(* collect_image_urls, download, build_html and main.                      *)
(*                                                                         *)
(* Text is modelled as sequences.  The query handed to make_url is a       *)
(* sequence of one-character strings.  URLs found in the page, content     *)
(* types and file names are sequences of tokens (short strings that the    *)
(* code never splits), ordered by TokenOrder the way Python orders the     *)
(* strings they stand for.                                                 *)
(***************************************************************************)
EXTENDS Integers, Sequences, FiniteSets, TLC

VARIABLES
    pc,          \* main's position
    query,       \* sys.argv[1] (or the default query)
    url,         \* main: url = make_url(query_or_url)
    cookieErr,   \* what load_firefox_cookies ran into: "none" or an exception
    cookies,     \* main: cookies
    calls,       \* the browser / pipeline calls main has made, in order
    i,           \* collect_image_urls: iterations of the for loop completed
    urls,        \* collect_image_urls: urls; then main: urls
    content,     \* collect_image_urls: content, the markup of the last scan
    seen,        \* every markup fragment page.content() has returned so far
    presses,     \* number of page.keyboard.press("End") calls
    scans,       \* number of page.content() scans
    clicked,     \* collect_image_urls: whether btn was there and clicked
    todo,        \* download: list(enumerate(sorted(urls)))
    di,          \* download: number of loop iterations completed
    saved,       \* download: saved
    result,      \* main: saved, what download returned, once it has
    files,       \* the images directory: a set of [path, size]
    index,       \* index.html: NoIndex or the sequence of listed names
    indexWritten,\* whether build_html wrote index.html in this run
    fetchLog,    \* each client.get so far: its URL, and whether the pass raised
    written,     \* the paths dest.write_bytes wrote in this run, in order
    last         \* the last download iteration: url, response, outcome

vars == << pc, query, url, cookieErr, cookies, calls, i, urls, content, seen,
           presses, scans, clicked, todo, di, saved, result, files, index,
           indexWritten, fetchLog, written, last >>

-----------------------------------------------------------------------------
(* Sequences *)

Range(s) == { s[k] : k \in 1..Len(s) }

StartsWith(s, p) == Len(s) >= Len(p) /\ SubSeq(s, 1, Len(p)) = p

RECURSIVE SeqsUpTo(_, _)
SeqsUpTo(S, n) ==
    IF n = 0 THEN { << >> }
    ELSE LET shorter == SeqsUpTo(S, n - 1)
         IN  shorter \cup { Append(s, c) : s \in shorter, c \in S }

-----------------------------------------------------------------------------
(* make_url *)

HttpPrefix == << "h", "t", "t", "p" >>

SearchPrefix ==
    << "h", "t", "t", "p", "s", ":", "/", "/", "w", "w", "w", ".", "g", "o",
       "o", "g", "l", "e", ".", "c", "o", "m", "/", "s", "e", "a", "r", "c",
       "h", "?", "q", "=" >>

SearchSuffix == << "&", "u", "d", "m", "=", "2" >>

\* urllib.parse.quote with its default safe="/": letters, digits, "_.-~" and
\* "/" are kept, every other character becomes %XX.
QuoteSafe ==
    { "a", "c", "f", "h", "p", "s", "t", "x", "/", ".", "-", "_", "~" }

QuoteChar(c) ==
    IF c \in QuoteSafe THEN << c >>
    ELSE CASE c = " " -> << "%", "2", "0" >>
           [] c = ":" -> << "%", "3", "A" >>
           [] c = "?" -> << "%", "3", "F" >>
           [] c = "&" -> << "%", "2", "6" >>

RECURSIVE quote(_)
quote(s) == IF s = << >> THEN << >> ELSE QuoteChar(Head(s)) \o quote(Tail(s))

make_url(query_or_url) ==
    IF StartsWith(query_or_url, HttpPrefix)
    THEN query_or_url
    ELSE SearchPrefix \o quote(query_or_url) \o SearchSuffix

-----------------------------------------------------------------------------
(* Tokens and their order *)

\* Every token of a URL or a file name, ascending as Python compares the
\* strings (by code point).
TokenOrder ==
    << ".", "/", "0", "1", "2", "3", "4", "5", "6", "7", "8", "9", "?w=9",
       "JPG", "a", "avif", "example.org", "gif", "googleusercontent.com",
       "https://", "img_", "jpeg",
       "jpg", "lh3.", "notes", "old", "p", "pic", "png", "t", "txt", "webp" >>

Rank(t) == CHOOSE k \in 1..Len(TokenOrder) : TokenOrder[k] = t

\* str.__lt__ on two token sequences.
RECURSIVE StrLess(_, _)
StrLess(s, t) ==
    IF s = << >> THEN t # << >>
    ELSE IF t = << >> THEN FALSE
    ELSE IF Head(s) = Head(t) THEN StrLess(Tail(s), Tail(t))
    ELSE Rank(Head(s)) < Rank(Head(t))

\* sorted(urls) on a set of strings: the k-th has k - 1 strings below it.
SortedStrs(S) ==
    [ k \in 1..Cardinality(S) |->
        CHOOSE x \in S : Cardinality({ y \in S : StrLess(y, x) }) = k - 1 ]

\* str.lower on one token.
Lower(t) == IF t = "JPG" THEN "jpg" ELSE t

LowerSeq(s) == [ k \in 1..Len(s) |-> Lower(s[k]) ]

-----------------------------------------------------------------------------
(* load_firefox_cookies *)

\* What browser_cookie3.firefox can hand back: no cookie, or one cookie whose
\* domain and path are empty.
Jars ==
    { << >>,
      << [name |-> "SID", value |-> "v", domain |-> "", path |-> ""] >> }

CookieOutcomes == { "ok", "ImportError", "BrowserCookieError" }

CookieDict(c) ==
    [ name   |-> c.name,
      value  |-> c.value,
      domain |-> IF c.domain # "" THEN c.domain ELSE ".google.com",
      path   |-> IF c.path # "" THEN c.path ELSE "/" ]

\* The try block returns the converted jar; any Exception returns [].
load_firefox_cookies(outcome, jar) ==
    IF outcome = "ok"
    THEN [ k \in 1..Len(jar) |-> CookieDict(jar[k]) ]
    ELSE << >>

\* A main that injects whatever it was given, the empty list too.
ShouldAddCookiesAlways(cs) == TRUE

\* main: if cookies:
ShouldAddCookies(cs) == cs # << >>

-----------------------------------------------------------------------------
(* collect_image_urls *)

SCROLL_TIMES == 15

skip_domains ==
    { "google.com", "gstatic.com", "googleapis.com", "googleusercontent.com" }

\* The runs of URL text the rendered markup can hold: inside a JSON "ou"
\* field (ou) or standing alone, as in a src attribute.
FragOuGoogle ==
    [ ou |-> TRUE,
      text |-> << "https://", "lh3.", "googleusercontent.com", "/", "p", ".",
                  "jpg", "?w=9" >> ]
FragSrc ==
    [ ou |-> FALSE,
      text |-> << "https://", "example.org", "/", "a", ".", "png" >> ]
FragOuSame ==
    [ ou |-> TRUE,
      text |-> << "https://", "example.org", "/", "a", ".", "png" >> ]

Fragments == { FragOuGoogle, FragSrc, FragOuSame }

Schemes == { "http://", "https://" }

\* pattern 1: "ou"\s*:\s*"(https?://[^"]+)", group 1.
Pattern1(markup) ==
    { f.text : f \in { g \in markup :
                         g.ou /\ Len(g.text) >= 2 /\ g.text[1] \in Schemes } }

Pattern2Exts == { "jpg", "jpeg", "png", "webp", "gif" }

\* pattern 2: https?://[^\s"'<>]+\.(?:jpg|jpeg|png|webp|gif), IGNORECASE and
\* greedy: the text up to the last extension that follows a dot.
Pattern2Ends(text) ==
    { k \in 4..Len(text) :
        text[1] \in Schemes /\ text[k - 1] = "." /\ Lower(text[k]) \in Pattern2Exts }

Max(S) == CHOOSE x \in S : \A y \in S : y <= x

\* str.rstrip("\\,;)")
RECURSIVE RStrip(_)
RStrip(s) ==
    IF s # << >> /\ s[Len(s)] \in { "\\", ",", ";", ")" }
    THEN RStrip(SubSeq(s, 1, Len(s) - 1))
    ELSE s

Pattern2(markup) ==
    { RStrip(SubSeq(f.text, 1, Max(Pattern2Ends(f.text)))) :
        f \in { g \in markup : Pattern2Ends(g.text) # {} } }

\* re.search(r'https?://([^/]+)', url), group 1: << >> when there is no match.
HostOf(u) ==
    IF Len(u) < 2 \/ u[1] \notin Schemes \/ u[2] = "/" THEN << >>
    ELSE LET slashes == { k \in 2..Len(u) : u[k] = "/" }
             stop == IF slashes = {} THEN Len(u) + 1
                     ELSE CHOOSE k \in slashes : \A j \in slashes : k <= j
         IN  SubSeq(u, 2, stop - 1)

\* host and not any(d in host.group(1) for d in skip_domains)
KeepHost(u) ==
    HostOf(u) # << >> /\ ~ \E d \in skip_domains : d \in Range(HostOf(u))

\* A scan that starts from an empty set instead of adding to urls.
ScanPageForgets(us, markup) ==
    Pattern1(markup) \cup { u \in Pattern2(markup) : KeepHost(u) }

\* One scan of page.content(): what the two finditer loops leave in urls.
ScanPage(us, markup) ==
    us \cup Pattern1(markup) \cup { u \in Pattern2(markup) : KeepHost(u) }

\* A loop that is one pass short.
LoopDoneEarly(n) == n >= SCROLL_TIMES - 1

\* for i in range(SCROLL_TIMES): the loop is over after SCROLL_TIMES passes.
LoopDone(n) == n >= SCROLL_TIMES

-----------------------------------------------------------------------------
(* download *)

MIN_SIZE == 5000

\* Bodies are from MIN_SIZE - 1 to MIN_SIZE + MaxExtra bytes long.
MaxExtra == 0

BodySizes == (MIN_SIZE - 1)..(MIN_SIZE + MaxExtra)

\* r.headers: the content-type header, when the response has one.
NoHeader == [ present |-> FALSE, value |-> << >> ]
Header(v) == [ present |-> TRUE, value |-> v ]

ContentTypes ==
    { NoHeader,
      Header(<< "image", "/", "png", ";", " ", "q=1" >>),
      Header(<< "image", "/", "svg+xml" >>),
      Header(<< "text", "/", "html", ";", " ", "charset=utf-8" >>) }

\* What client.get(url) can do: raise, or return a body and headers.
Responses ==
    { [ ok |-> FALSE, len |-> 0, ct |-> NoHeader ] }
    \cup [ ok : { TRUE }, len : BodySizes, ct : ContentTypes ]

\* r.headers.get("content-type", "image/jpeg")
ContentType(r) ==
    IF r.ct.present THEN r.ct.value ELSE << "image", "/", "jpeg" >>

\* A size test that lets a body of MIN_SIZE - 1 bytes through.
TooSmallOffByOne(n) == n < MIN_SIZE - 1

\* len(r.content) < MIN_SIZE
TooSmall(n) == n < MIN_SIZE

\* A download without the content-type test.
NotImageNever(ct) == FALSE

\* "image" not in ct
NotImage(ct) == "image" \notin Range(ct)

\* s.split(sep)[-1] and s.split(sep)[0]
AfterLast(s, sep) ==
    LET at == { k \in 1..Len(s) : s[k] = sep }
    IN  IF at = {} THEN s ELSE SubSeq(s, Max(at) + 1, Len(s))

BeforeFirst(s, sep) ==
    LET at == { k \in 1..Len(s) : s[k] = sep }
    IN  IF at = {} THEN s
        ELSE SubSeq(s, 1, (CHOOSE k \in at : \A j \in at : k <= j) - 1)

\* str.strip()
RECURSIVE Strip(_)
Strip(s) ==
    IF s # << >> /\ Head(s) = " " THEN Strip(Tail(s))
    ELSE IF s # << >> /\ s[Len(s)] = " " THEN Strip(SubSeq(s, 1, Len(s) - 1))
    ELSE s

\* str.replace("jpeg", "jpg")
ReplaceJpeg(s) == [ k \in 1..Len(s) |-> IF s[k] = "jpeg" THEN "jpg" ELSE s[k] ]

SaveExts == { << "jpg" >>, << "png" >>, << "gif" >>, << "webp" >>, << "avif" >> }

\* ext = ct.split("/")[-1].split(";")[0].strip().replace("jpeg", "jpg"), and
\* "jpg" when that is not one of the five.
ExtOf(ct) ==
    LET ext == ReplaceJpeg(Strip(BeforeFirst(AfterLast(ct, "/"), ";")))
    IN  IF ext \in SaveExts THEN ext ELSE << "jpg" >>

DigitChars == << "0", "1", "2", "3", "4", "5", "6", "7", "8", "9" >>

RECURSIVE Digits(_)
Digits(n) ==
    IF n < 10 THEN << DigitChars[n + 1] >>
    ELSE Digits(n \div 10) \o << DigitChars[(n % 10) + 1] >>

RECURSIVE PadLeft(_, _)
PadLeft(s, width) == IF Len(s) >= width THEN s ELSE PadLeft(<< "0" >> \o s, width)

\* f"{n:04d}"
Fmt04(n) == PadLeft(Digits(n), 4)

\* A file number taken from the enumerate index.
DestNumberByIndex(idx, nsaved) == idx

\* The number that names the next file: saved, not the enumerate index.
DestNumber(idx, nsaved) == nsaved

\* IMAGES_DIR / f"img_{saved:04d}.{ext}"
Dest(n, ext) == [ dir |-> << >>, name |-> << "img_" >> \o Fmt04(n) \o << "." >> \o ext ]

\* A handler that fetches the failed URL again.
AfterRaiseRetry(idx) == idx

\* except Exception: the URL is skipped and the for loop goes on.
AfterRaise(idx) == idx + 1

\* One pass of the for loop on response r; diskOk is whether write_bytes
\* succeeds.  wrote is the path written, if any.
Process(idx, nsaved, r, diskOk) ==
    LET none == [ dir |-> << >>, name |-> << >> ]
        skip == [ raised |-> FALSE, some |-> FALSE, path |-> none,
                  saved |-> nsaved, next |-> idx + 1 ]
        fail == [ raised |-> TRUE, some |-> FALSE, path |-> none,
                  saved |-> nsaved, next |-> AfterRaise(idx) ]
    IN  IF ~ r.ok THEN fail
        ELSE IF TooSmall(r.len) THEN skip
        ELSE IF NotImage(ContentType(r)) THEN skip
        ELSE IF ~ diskOk THEN fail
        ELSE [ raised |-> FALSE, some |-> TRUE,
               path |-> Dest(DestNumber(idx, nsaved), ExtOf(ContentType(r))),
               saved |-> nsaved + 1, next |-> idx + 1 ]

\* dest.write_bytes(content): the file is created or replaced.
WriteBytes(dir, path, n) ==
    { f \in dir : f.path # path } \cup { [ path |-> path, size |-> n ] }

-----------------------------------------------------------------------------
(* build_html *)

IMG_EXTS ==
    { << ".", "jpg" >>, << ".", "jpeg" >>, << ".", "png" >>, << ".", "gif" >>,
      << ".", "webp" >>, << ".", "avif" >> }

\* PurePath.suffix: the name from its last dot on, when that dot is not the
\* first character.
Suffix(name) ==
    LET dots == { k \in 2..Len(name) : name[k] = "." }
    IN  IF dots = {} THEN << >> ELSE SubSeq(name, Max(dots), Len(name))

\* Path.parts below IMAGES_DIR.
Parts(p) == p.dir \o << p.name >>

\* Path.__lt__: the parts compared in order.
RECURSIVE PartsLess(_, _)
PartsLess(a, b) ==
    IF a = << >> THEN b # << >>
    ELSE IF b = << >> THEN FALSE
    ELSE IF Head(a) = Head(b) THEN PartsLess(Tail(a), Tail(b))
    ELSE StrLess(Head(a), Head(b))

\* sorted(paths): the k-th has k - 1 paths below it.
SortedPaths(S) ==
    [ k \in 1..Cardinality(S) |->
        CHOOSE x \in S :
            Cardinality({ y \in S : PartsLess(Parts(y), Parts(x)) }) = k - 1 ]

\* sorted(p for p in IMAGES_DIR.rglob("*") if p.suffix.lower() in IMG_EXTS)
GalleryImages(dir) ==
    SortedPaths({ f.path : f \in { g \in dir :
                                     LowerSeq(Suffix(g.path.name)) \in IMG_EXTS } })

NoIndex == [ exists |-> FALSE, imgs |-> << >> ]

\* index.html after build_html: untouched when there are no images, else one
\* <img src="images/{p.name}"> per image.
build_html(dir, old) ==
    LET images == GalleryImages(dir)
    IN  IF images = << >> THEN old
        ELSE [ exists |-> TRUE,
               imgs |-> [ k \in 1..Len(images) |-> images[k].name ] ]

-----------------------------------------------------------------------------
(* The inputs and the state before a run *)

\* Longest free part of a command-line argument.
MaxLen == 2

QueryChars == { "c", " ", "/", ":" }

ArgPrefixes ==
    { << >>,
      << "h", "t", "t", "p" >>,
      << "h", "t", "t", "p", ":", "/", "/" >>,
      << "h", "t", "t", "p", "s", ":", "/", "/" >>,
      << "f", "t", "p", ":", "/", "/" >> }

\* sys.argv[1]: a query or a URL.
Args == { p \o r : p \in ArgPrefixes, r \in SeqsUpTo(QueryChars, MaxLen) }

Queries ==
    { << "c", "a", "t", " ", "p", "a", "t" >>,
      << "h", "t", "t", "p", "s", ":", "/", "/", "x", "/", "?", "a" >> }

\* What an earlier run, or the user, may have left in the images directory.
OldImage ==
    [ path |-> [ dir |-> << >>,
                 name |-> << "img_", "0", "0", "0", "0", ".", "png" >> ],
      size |-> 100 ]
OldNested ==
    [ path |-> [ dir |-> << << "old" >> >>, name |-> << "pic", ".", "JPG" >> ],
      size |-> 7000 ]
OldNotes ==
    [ path |-> [ dir |-> << >>, name |-> << "notes", ".", "txt" >> ],
      size |-> 10 ]

PriorDirs == { {}, { OldNotes }, { OldImage }, { OldImage, OldNested, OldNotes } }

\* index.html before the run: missing, or the gallery of an earlier run.
PriorIndexes ==
    { NoIndex,
      [ exists |-> TRUE,
        imgs |-> << << "img_", "0", "0", "0", "0", ".", "jpg" >> >> ] }

NoPath == [ dir |-> << >>, name |-> << >> ]

NoLast ==
    [ valid |-> FALSE, url |-> << >>,
      resp |-> [ ok |-> FALSE, len |-> 0, ct |-> NoHeader ],
      raised |-> FALSE, some |-> FALSE, path |-> NoPath, before |-> 0 ]

NoResult == [ returned |-> FALSE, value |-> 0 ]

InitRun ==
    /\ pc = "make_url"
    /\ url = << >>
    /\ cookieErr = "none"
    /\ cookies = << >>
    /\ calls = << >>
    /\ i = 0
    /\ urls = {}
    /\ content = {}
    /\ seen = {}
    /\ presses = 0
    /\ scans = 0
    /\ clicked = FALSE
    /\ todo = << >>
    /\ di = 0
    /\ saved = 0
    /\ result = NoResult
    /\ indexWritten = FALSE
    /\ fetchLog = << >>
    /\ written = << >>
    /\ last = NoLast

Init ==
    /\ query \in Queries
    /\ files \in PriorDirs
    /\ index \in PriorIndexes
    /\ InitRun

-----------------------------------------------------------------------------
(* main *)

collectVars == << i, urls, content, seen, presses, scans, clicked >>
downloadVars == << todo, di, saved, result, fetchLog, written, last >>
diskVars == << files, index, indexWritten >>
cookieVars == << cookieErr, cookies >>

\* url = make_url(query_or_url)
MakeUrl ==
    /\ pc = "make_url"
    /\ url' = make_url(query)
    /\ pc' = "load_cookies"
    /\ UNCHANGED << query, cookieVars, calls, collectVars, downloadVars, diskVars >>

\* cookies = load_firefox_cookies()
LoadCookies ==
    /\ pc = "load_cookies"
    /\ \E outcome \in CookieOutcomes, jar \in Jars :
          /\ outcome # "ok" => jar = << >>
          /\ cookieErr' = IF outcome = "ok" THEN "none" ELSE outcome
          /\ cookies' = load_firefox_cookies(outcome, jar)
    /\ pc' = "launch"
    /\ UNCHANGED << query, url, calls, collectVars, downloadVars, diskVars >>

\* browser = await p.firefox.launch(...); ctx = await browser.new_context(...)
Launch ==
    /\ pc = "launch"
    /\ calls' = calls \o << "launch", "new_context" >>
    /\ pc' = IF ShouldAddCookies(cookies) THEN "add_cookies" ELSE "goto"
    /\ UNCHANGED << query, url, cookieVars, collectVars, downloadVars, diskVars >>

\* await ctx.add_cookies(cookies)
AddCookies ==
    /\ pc = "add_cookies"
    /\ calls' = Append(calls, "add_cookies")
    /\ pc' = "goto"
    /\ UNCHANGED << query, url, cookieVars, collectVars, downloadVars, diskVars >>

\* page = await ctx.new_page(); await page.goto(url, ...)
Goto ==
    /\ pc = "goto"
    /\ calls' = calls \o << "new_page", "goto" >>
    /\ pc' = "collect"
    /\ UNCHANGED << query, url, cookieVars, collectVars, downloadVars, diskVars >>

\* One pass of collect_image_urls' for loop: press End, scan the markup,
\* click the control when it is there.
Scroll ==
    /\ pc = "collect"
    /\ ~ LoopDone(i)
    /\ \E markup \in SUBSET Fragments, btn \in BOOLEAN :
          /\ presses' = presses + 1
          /\ scans' = scans + 1
          /\ content' = markup
          /\ seen' = seen \cup markup
          /\ urls' = ScanPage(urls, markup)
          /\ clicked' = btn
    /\ i' = i + 1
    /\ UNCHANGED << pc, query, url, cookieVars, calls, downloadVars, diskVars >>

\* return urls: the locals content and btn are gone.
CollectReturn ==
    /\ pc = "collect"
    /\ LoopDone(i)
    /\ calls' = Append(calls, "collect")
    /\ content' = {}
    /\ clicked' = FALSE
    /\ pc' = "close"
    /\ UNCHANGED << query, url, cookieVars, i, urls, seen, presses, scans,
                    downloadVars, diskVars >>

\* await browser.close()
Close ==
    /\ pc = "close"
    /\ calls' = Append(calls, "close")
    /\ pc' = "download"
    /\ UNCHANGED << query, url, cookieVars, collectVars, downloadVars, diskVars >>

\* download(urls): saved = 0 and the sorted URLs
DownloadEnter ==
    /\ pc = "download"
    /\ calls' = Append(calls, "download")
    /\ saved' = 0
    /\ todo' = SortedStrs(urls)
    /\ di' = 0
    /\ pc' = "download_loop"
    /\ UNCHANGED << query, url, cookieVars, collectVars, result, fetchLog,
                    written, last, diskVars >>

\* One pass of download's for loop.
Fetch ==
    /\ pc = "download_loop"
    /\ di < Len(todo)
    /\ \E r \in Responses, diskOk \in BOOLEAN :
          LET u == todo[di + 1]
              o == Process(di, saved, r, diskOk)
          IN  /\ fetchLog' = Append(fetchLog, [ url |-> u, raised |-> o.raised ])
              /\ saved' = o.saved
              /\ di' = o.next
              /\ files' = IF o.some THEN WriteBytes(files, o.path, r.len) ELSE files
              /\ written' = IF o.some THEN Append(written, o.path) ELSE written
              /\ last' = [ valid |-> TRUE, url |-> u, resp |-> r,
                           raised |-> o.raised, some |-> o.some,
                           path |-> o.path, before |-> saved ]
    /\ UNCHANGED << pc, query, url, cookieVars, calls, collectVars, todo, result,
                    index, indexWritten >>

\* return saved
DownloadReturn ==
    /\ pc = "download_loop"
    /\ di >= Len(todo)
    /\ result' = [ returned |-> TRUE, value |-> saved ]
    /\ pc' = "build_html"
    /\ UNCHANGED << query, url, cookieVars, calls, collectVars, todo, di, saved,
                    fetchLog, written, last, diskVars >>

\* build_html()
BuildHtml ==
    /\ pc = "build_html"
    /\ calls' = Append(calls, "build_html")
    /\ index' = build_html(files, index)
    /\ indexWritten' = (GalleryImages(files) # << >>)
    /\ pc' = "done"
    /\ UNCHANGED << query, url, cookieVars, collectVars, downloadVars, files >>

Next ==
    \/ MakeUrl
    \/ LoadCookies
    \/ Launch
    \/ AddCookies
    \/ Goto
    \/ Scroll
    \/ CollectReturn
    \/ Close
    \/ DownloadEnter
    \/ Fetch
    \/ DownloadReturn
    \/ BuildHtml

Spec == Init /\ [][Next]_vars

\* make_url alone, on every argument of Args.
InitMakeUrl ==
    /\ query \in Args
    /\ files = {}
    /\ index = NoIndex
    /\ InitRun

SpecMakeUrl == InitMakeUrl /\ [][MakeUrl]_vars

-----------------------------------------------------------------------------
(* Properties *)

\* The names index.html lists, and how often it lists one.
ListedNames == Range(index.imgs)
TimesListed(name) == Cardinality({ k \in 1..Len(index.imgs) : index.imgs[k] = name })

\* The image files below the images directory, by name.
ImageFileNames ==
    { f.path.name : f \in { g \in files : LowerSeq(Suffix(g.path.name)) \in IMG_EXTS } }

WrittenNames == { written[k].name : k \in 1..Len(written) }

Fetched == fetchLog' # fetchLog
WroteFile == files' # files \/ written' # written

\* C1: after main has run, an image file exists under the images directory
\* if and only if index.html lists it.
C1_FileExistsIffListed ==
    pc = "done" => ListedNames = ImageFileNames

\* C2: the gallery build_html writes lists exactly the files download saved
\* in this run, each once.
C2_GalleryListsExactlySaved ==
    (pc = "done" /\ indexWritten) =>
        /\ ListedNames = WrittenNames
        /\ \A n \in WrittenNames : TimesListed(n) = 1

\* C3: a pass of download whose body is shorter than MIN_SIZE writes no file
\* and leaves saved alone, and every file download wrote holds at least
\* MIN_SIZE bytes.
C3_SmallBodiesSkipped ==
    /\ [][ (Fetched /\ last'.resp.ok /\ last'.resp.len < MIN_SIZE)
             => (~ WroteFile /\ saved' = saved) ]_vars
    /\ [](\A k \in 1..Len(written) :
             \E f \in files : f.path = written[k] /\ f.size >= MIN_SIZE)

C3_Witness ==
    /\ last.valid /\ last.resp.ok /\ last.resp.len < MIN_SIZE
    /\ Len(written) = 1
    /\ pc = "done"

\* The media type of a content-type header is image/<one of the allowed>.
AllowedSubtypes == { "jpg", "jpeg", "png", "gif", "webp", "avif" }
AllowedType(h) ==
    /\ h.present
    /\ Len(h.value) >= 3
    /\ h.value[1] = "image" /\ h.value[2] = "/" /\ h.value[3] \in AllowedSubtypes
    /\ (Len(h.value) > 3 => h.value[4] = ";")

\* C4 as stated: download writes a response only when its content type is
\* one of the allowed image types.
C4_OnlyAllowedTypesSaved ==
    [][ (Fetched /\ WroteFile) => AllowedType(last'.resp.ct) ]_vars

\* C4 as amended: download writes a response only when its content-type
\* header is missing or holds "image"; the file's extension is the subtype
\* when that is jpg, png, gif, webp or avif (jpeg counts as jpg), and jpg
\* otherwise.
C4_SavedOnlyIfImageOrNoHeader ==
    [][ (Fetched /\ WroteFile) =>
          LET h == last'.resp.ct
              name == last'.path.name
              ext == name[Len(name)]
          IN  /\ ~ h.present \/ "image" \in Range(h.value)
              /\ ext \in { "jpg", "png", "gif", "webp", "avif" }
              /\ IF AllowedType(h)
                 THEN ext = (IF h.value[3] = "jpeg" THEN "jpg" ELSE h.value[3])
                 ELSE ext = "jpg" ]_vars

C4_Witness ==
    /\ last.valid /\ last.some
    /\ ~ last.resp.ct.present
    /\ \E f \in files : f.path = last.path

\* C5: download fetches every candidate URL once, in sorted order; a pass
\* that raises changes neither saved nor the directory and is not repeated,
\* and the URLs after it are fetched.
C5_EachUrlFetchedOnce ==
    /\ [](\A k \in 1..Len(fetchLog) :
             /\ fetchLog[k].url \in urls
             /\ k > 1 => StrLess(fetchLog[k - 1].url, fetchLog[k].url))
    /\ [](result.returned =>
             /\ { fetchLog[k].url : k \in 1..Len(fetchLog) } = urls
             /\ Len(fetchLog) = Cardinality(urls))
    /\ [][ (Fetched /\ last'.raised) => (saved' = saved /\ ~ WroteFile) ]_vars

C5_Witness ==
    /\ pc = "done"
    /\ Len(fetchLog) = 2
    /\ fetchLog[1].raised
    /\ ~ fetchLog[2].raised
    /\ saved = 1

\* C6: collect_image_urls never stops short and never runs over: every step
\* inside it is one more pass (one press of End, one scan) or, after exactly
\* SCROLL_TIMES passes, the return, whatever the markup and the control do.
C6_FixedScrollBudget ==
    /\ [](pc = "collect" =>
             (i <= SCROLL_TIMES /\ presses = i /\ scans = i /\ ENABLED Next))
    /\ []("collect" \in Range(calls) =>
             (i = SCROLL_TIMES /\ presses = SCROLL_TIMES /\ scans = SCROLL_TIMES))
    /\ [][ pc = "collect" =>
             \/ /\ i < SCROLL_TIMES /\ pc' = "collect" /\ i' = i + 1
                /\ presses' = presses + 1 /\ scans' = scans + 1
             \/ /\ i = SCROLL_TIMES /\ pc' = "close"
                /\ presses' = presses /\ scans' = scans ]_vars

C6_Witness ==
    /\ pc = "close"
    /\ presses = SCROLL_TIMES
    /\ urls = {}

\* C7: the k-th file download writes (k from 0) is img_<k as four digits>.<ext>
\* with ext one of jpg, png, gif, webp, avif, and download returns the number
\* of files it wrote.
DigitValue(c) == CHOOSE d \in 0..9 : DigitChars[d + 1] = c
C7_SequentialNames ==
    /\ \A k \in 1..Len(written) :
          LET n == written[k].name
          IN  /\ written[k].dir = << >>
              /\ Len(n) = 7
              /\ n[1] = "img_"
              /\ \A j \in 2..5 : n[j] \in Range(DigitChars)
              /\ 1000 * DigitValue(n[2]) + 100 * DigitValue(n[3])
                   + 10 * DigitValue(n[4]) + DigitValue(n[5]) = k - 1
              /\ n[6] = "."
              /\ n[7] \in { "jpg", "png", "gif", "webp", "avif" }
              /\ \E f \in files : f.path = written[k]
    /\ saved = Len(written)
    /\ result.returned => result.value = Len(written)

C7_Witness ==
    /\ pc = "done"
    /\ result.value = 1
    /\ Len(fetchLog) = 2
    /\ last.some

\* An argument with an http:// or https:// scheme, and the search URL of a query.
LooksLikeUrl(q) ==
    \/ StartsWith(q, << "h", "t", "t", "p", ":", "/", "/" >>)
    \/ StartsWith(q, << "h", "t", "t", "p", "s", ":", "/", "/" >>)
SearchUrl(q) == SearchPrefix \o quote(q) \o SearchSuffix

\* C8: make_url returns a URL unchanged and turns anything else into the
\* search URL of that query.
C8_QueriesBecomeSearches ==
    pc # "make_url" =>
        IF LooksLikeUrl(query) THEN url = query ELSE url = SearchUrl(query)

\* C9: when cookie extraction fails, load_firefox_cookies returns an empty
\* list, and main is never stuck before its end, which it reaches having
\* launched, navigated, collected, closed, downloaded and rendered, without
\* add_cookies.
C9_CookieFailureIsNoCookies ==
    cookieErr # "none" =>
        /\ cookies = << >>
        /\ "add_cookies" \notin Range(calls)
        /\ pc # "add_cookies"
        /\ pc # "done" => ENABLED Next
        /\ pc = "done" =>
             calls = << "launch", "new_context", "new_page", "goto", "collect",
                        "close", "download", "build_html" >>

C9_Witness ==
    /\ cookieErr = "BrowserCookieError"
    /\ pc = "done"
    /\ written # << >>

\* C10: urls only grows, and it is the pattern-1 URLs of all markup scanned so
\* far together with the pattern-2 URLs whose host holds no skip domain.
C10_UrlsAccumulate ==
    /\ [][ urls \subseteq urls' ]_vars
    /\ [](urls = Pattern1(seen)
                   \cup { u \in Pattern2(seen) :
                            \A d \in skip_domains : d \notin Range(HostOf(u)) })

C10_Witness ==
    /\ pc = "collect"
    /\ i = SCROLL_TIMES
    /\ content = {}
    /\ Cardinality(urls) = 2

=============================================================================
